---- MODULE Spec2Model ----
(***************************************************************************)
(* Model of the asynchronous port scanner: run_scan fans out one scan_port *)
(* task per requested port under an asyncio.Semaphore, each task connects, *)
(* reads a banner, infers the service, and gather collects the results.    *)
(*                                                                         *)
(* Text is a sequence of code points, bytes are a sequence of 0..255.      *)
(***************************************************************************)
EXTENDS Integers, Sequences, FiniteSets, TLC

\* ----------------------------------------------------------------- bounds
MaxPorts == 2
MaxConcurrency == 2
MaxTokens == 2

\* ------------------------------------------------------- program constants
ReadLimit == 256

PortMin == 1
PortMax == 65535

\* utils.TOP_TCP_PORTS
TOP_TCP_PORTS ==
    <<21, 22, 23, 25, 53, 80, 110, 111, 135, 139, 143, 443, 445,
      587, 993, 995, 3306, 3389, 5900, 8080>>

\* Python's None for an Optional[str] banner: no text has a negative code point.
None == <<-1>>
\* Python's None for an Optional[str] service label.
NoService == "None"

\* Ports the scans of the model are asked for: in SERVICE_MAP (22, 80) or not (9999).
PortUniverse == {22, 80, 9999}

SERVICE_MAP ==
    (21 :> "ftp") @@ (22 :> "ssh") @@ (23 :> "telnet") @@ (25 :> "smtp") @@
    (53 :> "dns") @@ (80 :> "http") @@ (110 :> "pop3") @@ (143 :> "imap") @@
    (443 :> "https") @@ (3306 :> "mysql") @@ (3389 :> "rdp") @@
    (5900 :> "vnc") @@ (8080 :> "http-alt")

\* ---------------------------------------------------------- text helpers
\* Characters str.strip() removes, among the ASCII code points.
IsSpace(c) == c \in {9, 10, 11, 12, 13, 28, 29, 30, 31, 32}

RECURSIVE LStrip(_)
LStrip(s) == IF s # <<>> /\ IsSpace(Head(s)) THEN LStrip(Tail(s)) ELSE s

RECURSIVE RStrip(_)
RStrip(s) ==
    IF s # <<>> /\ IsSpace(s[Len(s)]) THEN RStrip(SubSeq(s, 1, Len(s) - 1)) ELSE s

\* str.strip()
Strip(s) == RStrip(LStrip(s))

\* str.lower() on ASCII text
Lower(s) == [k \in 1..Len(s) |-> IF s[k] \in 65..90 THEN s[k] + 32 ELSE s[k]]

\* the `in` operator on strings: sub occurs in s
Contains(sub, s) ==
    \E k \in 0..(Len(s) - Len(sub)) : SubSeq(s, k + 1, k + Len(sub)) = sub

\* bytes.decode(errors="ignore") for bytes that are ASCII or can never begin a
\* UTF-8 sequence (0x80..0xC1, 0xF5..0xFF): the ASCII bytes are kept, the
\* others are dropped.
Decode(data) == SelectSeq(data, LAMBDA b : b < 128)

\* the keyword literals of infer_service
KwSsh == <<115, 115, 104>>
KwHttp == <<104, 116, 116, 112>>
KwApache == <<97, 112, 97, 99, 104, 101>>
KwNginx == <<110, 103, 105, 110, 120>>
KwSmtp == <<115, 109, 116, 112>>
KwMysql == <<109, 121, 115, 113, 108>>
KwMariadb == <<109, 97, 114, 105, 97, 100, 98>>
KwRdp == <<114, 100, 112>>
KwMstsc == <<109, 115, 116, 115, 99>>

\* Variant of infer_service: the banner heuristics are tried before the port
\* table.
infer_service_BannerFirst(port, banner) ==
    LET b == IF banner = None THEN <<>> ELSE Lower(banner) IN
    IF Contains(KwSsh, b) THEN "ssh"
    ELSE IF Contains(KwHttp, b) \/ Contains(KwApache, b) \/ Contains(KwNginx, b)
        THEN "http"
    ELSE IF Contains(KwSmtp, b) THEN "smtp"
    ELSE IF Contains(KwMysql, b) \/ Contains(KwMariadb, b) THEN "mysql"
    ELSE IF Contains(KwRdp, b) \/ Contains(KwMstsc, b) THEN "rdp"
    ELSE IF port \in DOMAIN SERVICE_MAP THEN SERVICE_MAP[port]
    ELSE NoService

\* utils.infer_service
infer_service(port, banner) ==
    IF port \in DOMAIN SERVICE_MAP THEN SERVICE_MAP[port]
    ELSE IF banner # None /\ banner # <<>> THEN
        LET b == Lower(banner) IN
        IF Contains(KwSsh, b) THEN "ssh"
        ELSE IF Contains(KwHttp, b) \/ Contains(KwApache, b) \/ Contains(KwNginx, b)
            THEN "http"
        ELSE IF Contains(KwSmtp, b) THEN "smtp"
        ELSE IF Contains(KwMysql, b) \/ Contains(KwMariadb, b) THEN "mysql"
        ELSE IF Contains(KwRdp, b) \/ Contains(KwMstsc, b) THEN "rdp"
        ELSE NoService
    ELSE NoService

\* ------------------------------------------------------------ port parsing
Comma == 44
Hyphen == 45
Plus == 43
Underscore == 95
IsDigit(c) == c \in 48..57

\* the index of the first c in s, 0 when there is none
FirstIndex(s, c) ==
    IF \E k \in 1..Len(s) : s[k] = c
    THEN CHOOSE k \in 1..Len(s) : s[k] = c /\ \A j \in 1..(k - 1) : s[j] # c
    ELSE 0

\* str.split(c)
RECURSIVE Split(_, _)
Split(s, c) ==
    LET k == FirstIndex(s, c) IN
    IF k = 0 THEN <<s>>
    ELSE <<SubSeq(s, 1, k - 1)>> \o Split(SubSeq(s, k + 1, Len(s)), c)

\* the value of a sequence of decimal digits
RECURSIVE DigitsValue(_)
DigitsValue(d) ==
    IF d = <<>> THEN 0 ELSE 10 * DigitsValue(SubSeq(d, 1, Len(d) - 1)) + (d[Len(d)] - 48)

\* Characters int() skips around a number in ASCII text: the separators
\* 28..31, which str.strip() removes, are not among them.
IsIntSpace(c) == c \in {9, 10, 11, 12, 13, 32}

\* s without the characters int() skips at its two ends
IntStrip(s) ==
    LET kept == {k \in 1..Len(s) : ~IsIntSpace(s[k])}
    IN IF kept = {} THEN <<>>
       ELSE SubSeq(s, CHOOSE k \in kept : \A j \in kept : k <= j,
                      CHOOSE k \in kept : \A j \in kept : j <= k)

\* int(s) for ASCII text: surrounding whitespace, one optional sign, decimal
\* digits with single underscores between them. ok is FALSE for ValueError.
PyInt(s) ==
    LET t == IntStrip(s)
        signed == t # <<>> /\ t[1] \in {Hyphen, Plus}
        body == IF signed THEN Tail(t) ELSE t
        wellFormed ==
            /\ body # <<>>
            /\ \A k \in 1..Len(body) : IsDigit(body[k]) \/ body[k] = Underscore
            /\ IsDigit(body[1]) /\ IsDigit(body[Len(body)])
            /\ \A k \in 1..(Len(body) - 1) : ~(body[k] = Underscore /\ body[k + 1] = Underscore)
        magnitude == DigitsValue(SelectSeq(body, IsDigit))
    IN IF wellFormed
       THEN [ok |-> TRUE, val |-> IF signed /\ t[1] = Hyphen THEN 0 - magnitude ELSE magnitude]
       ELSE [ok |-> FALSE, val |-> 0]

\* The ports one stripped part of the specification adds to the set: a range
\* "a-b" (split at the first hyphen), a single number, or nothing when int()
\* raises ValueError.
PartPorts(part) ==
    IF FirstIndex(part, Hyphen) # 0
    THEN LET k == FirstIndex(part, Hyphen)
             start == PyInt(SubSeq(part, 1, k - 1))
             end == PyInt(SubSeq(part, k + 1, Len(part)))
         IN IF start.ok /\ end.ok THEN start.val..end.val ELSE {}
    ELSE LET n == PyInt(part) IN IF n.ok THEN {n.val} ELSE {}

\* sorted(...) of a set of integers
SortedList(S) ==
    [n \in 1..Cardinality(S) |-> CHOOSE x \in S : Cardinality({y \in S : y <= x}) = n]

\* the set the loop over the parts builds
PortSet(parts) == UNION {PartPorts(Strip(parts[k])) : k \in 1..Len(parts)}

\* Variant of parse_ports: the final range filter is missing.
parse_ports_Unfiltered(ports_arg) ==
    IF ports_arg = None \/ ports_arg = <<>> THEN TOP_TCP_PORTS
    ELSE SortedList(PortSet(Split(ports_arg, Comma)))

\* Variant of parse_ports: a specification that yields no port falls back to
\* the default list.
parse_ports_DefaultWhenEmpty(ports_arg) ==
    IF ports_arg = None \/ ports_arg = <<>> THEN TOP_TCP_PORTS
    ELSE LET found == {q \in PortSet(Split(ports_arg, Comma)) : PortMin <= q /\ q <= PortMax}
         IN IF found = {} THEN TOP_TCP_PORTS ELSE SortedList(found)

\* scanner.parse_ports
parse_ports(ports_arg) ==
    IF ports_arg = None \/ ports_arg = <<>> THEN TOP_TCP_PORTS
    ELSE SortedList({q \in PortSet(Split(ports_arg, Comma)) : PortMin <= q /\ q <= PortMax})

\* gui.parse_ports_input
parse_ports_input(s) ==
    IF s = None \/ s = <<>> \/ Strip(s) = <<>> THEN TOP_TCP_PORTS
    ELSE LET parts == SelectSeq([k \in 1..Len(Split(s, Comma)) |-> Strip(Split(s, Comma)[k])],
                                LAMBDA part : part # <<>>)
         IN SortedList({q \in PortSet(parts) : PortMin <= q /\ q <= PortMax})

\* the tokens the specifications of the model are made of
Tok22 == <<50, 50>>    \* "22"
Tok80 == <<56, 48>>    \* "80"
TokZero == <<48>>    \* "0"
TokTooBig == <<55, 48, 48, 48, 48>>    \* "70000"
TokWord == <<97, 98, 99>>    \* "abc"
TokEmpty == <<>>    \* ""
TokBlank == <<32>>    \* " "
TokPadded == <<32, 52, 52, 51, 32>>    \* " 443 "
TokRange == <<49, 45, 51>>    \* "1-3"
TokReversed == <<50, 50, 45, 50, 48>>    \* "22-20"
TokEdgeRange == <<54, 53, 53, 51, 52, 45, 54, 53, 53, 51, 55>>    \* "65534-65537"
TokBadRange == <<51, 45, 97>>    \* "3-a"
TokSepPadded == <<28, 50, 50>>    \* "\x1c22"
TokSepRange == <<49, 28, 45, 51>>    \* "1\x1c-3"
Tokens == {Tok22, Tok80, TokZero, TokTooBig, TokWord, TokEmpty, TokBlank, TokPadded, TokRange, TokReversed, TokEdgeRange, TokBadRange,
           TokSepPadded, TokSepRange}

\* ",".join(ts)
RECURSIVE Join(_)
Join(ts) ==
    IF ts = <<>> THEN <<>>
    ELSE IF Len(ts) = 1 THEN ts[1]
    ELSE ts[1] \o <<Comma>> \o Join(Tail(ts))

TokenLists == UNION {[1..n -> Tokens] : n \in 0..MaxTokens}

\* the port specifications of the model, and None for "no -p option"
PortSpecs == {Join(ts) : ts \in TokenLists} \cup {None}

\* ------------------------------------------------------ target resolution
\* What the target string is, as far as resolve_target can tell.
TargetKinds == {"ipv4_literal", "host_resolves", "host_no_candidates", "host_lookup_error"}

\* utils.resolve_target: TRUE when it returns an address, FALSE when it raises
\* socket.gaierror (from getaddrinfo, or for an empty candidate list).
resolve_target(t) ==
    IF t = "ipv4_literal" THEN TRUE
    ELSE IF t = "host_lookup_error" THEN FALSE
    ELSE IF t = "host_no_candidates" THEN FALSE
    ELSE TRUE

\* ---------------------------------------------------------- peer behaviour
\* How a connect attempt can end (try_connect).
ConnectOutcomes == {"ok", "refused", "timeout", "oserror"}

\* How the single reader.read(256) can end (grab_banner).
ReadOutcomes == {"data", "eof", "timeout", "reset"}

\* Payloads a peer sends as its greeting.
PeerData == {
    <<83, 83, 72, 45, 50, 13, 10>>,       \* "SSH-2\r\n"
    <<32, 10>>,                            \* " \n", whitespace only
    <<255>> }                              \* one undecodable byte

\* reader.read(n): at most n bytes of what has arrived
Take(data, n) == SubSeq(data, 1, IF Len(data) < n THEN Len(data) ELSE n)

\* The value grab_banner's try block produces for a read that did not raise.
BannerOf(outcome, data) ==
    IF outcome = "data" /\ Take(data, ReadLimit) # <<>>
        THEN Strip(Decode(Take(data, ReadLimit)))
        ELSE None

\* ------------------------------------------------------------ result order
\* A scan_port result record.
Record(port, status, banner, service) ==
    [port |-> port, status |-> status, banner |-> banner, service |-> service]

\* Insert r after every element whose port is <= r.port (stable).
RECURSIVE Insert(_, _)
Insert(r, s) ==
    IF s = <<>> THEN <<r>>
    ELSE IF Head(s).port <= r.port THEN <<Head(s)>> \o Insert(r, Tail(s))
    ELSE <<r>> \o s

\* Variant of SortedByPort: the list is returned in gather's order, unsorted.
SortedByPort_Unsorted(s) == s

\* sorted(results, key=lambda r: r["port"]): a stable sort by port
RECURSIVE SortedByPort(_)
SortedByPort(s) ==
    IF s = <<>> THEN <<>>
    ELSE Insert(s[Len(s)], SortedByPort(SubSeq(s, 1, Len(s) - 1)))

\* ------------------------------------------------------------------ state
VARIABLES
    ip,           \* run_scan's local ip: "unset", or "resolved"
    ports,        \* run_scan's ports argument
    concurrency,  \* run_scan's concurrency argument
    runner,       \* where run_scan is: "start", "gathering", "returned", "raised"
    error,        \* the exception run_scan raised: "none", "gaierror", "reset"
    sem_value,    \* semaphore._value
    waiters,      \* tasks blocked in semaphore.acquire(), oldest first
    phase,        \* per task: where scan_port is
    conn,         \* per task: its connection, "none", "open" or "closed"
    closes,       \* per task: how many times writer.close() ran
    connected,    \* per task: how its connect attempt ended
    readEnd,      \* per task: how its banner read ended
    banner,       \* per task: the value grab_banner is about to return
    result,       \* per task: <<>> or <<the record scan_port returned>>
    attempts,     \* per task: how many times try_connect was called
    returned,     \* the list run_scan returned
    ports_arg,    \* the text given to parse_ports and parse_ports_input
    parsed,       \* what parse_ports returned, None before the call
    parsedGui,    \* what parse_ports_input returned, None before the call
    infer_in,     \* the (port, banner) given to infer_service
    infer_out,    \* what infer_service returned, "unset" before the call
    results,      \* the list of dicts given to save_json and save_csv
    jsonFile,     \* the file save_json wrote, None before the call
    loaded,       \* what json.loads read back from jsonFile, state "unset" before
    csvFile       \* the file save_csv wrote, None before the call

vars == <<ip, ports, concurrency, runner, error, sem_value, waiters, phase,
          conn, closes, connected, readEnd, banner, result, attempts, returned,
          ports_arg, parsed, parsedGui, infer_in, infer_out, results, jsonFile,
          loaded, csvFile>>

inputs == <<ports, concurrency>>

\* the state of a scan
scan == <<ip, ports, concurrency, runner, error, sem_value, waiters, phase,
          conn, closes, connected, readEnd, banner, result, attempts, returned>>

\* the state of the helpers around a scan: parsing, inference, reports
parsing == <<ports_arg, parsed, parsedGui>>
inference == <<infer_in, infer_out>>
reports == <<results, jsonFile, loaded, csvFile>>
util == <<parsing, inference, reports>>

\* the port lists of the model: every order, repetitions included
PortLists == UNION {[1..n -> PortUniverse] : n \in 0..MaxPorts}

Tasks == 1..Len(ports)

\* tasks inside `async with semaphore`, i.e. holding an admission slot
HoldingPhases == {"woken", "connecting", "reading", "closing"}
Holders == {i \in Tasks : phase[i] \in HoldingPhases}

\* tasks that are over
FinalPhases == {"done", "raised", "cancelled"}

\* no helper has been called
ParsingIdle == ports_arg = None /\ parsed = None /\ parsedGui = None
InferenceIdle == infer_in = None /\ infer_out = "unset"
ReportsIdle ==
    /\ results = <<>>
    /\ jsonFile = None
    /\ loaded = [state |-> "unset", value |-> <<>>]
    /\ csvFile = None

\* a scan of the port list ps with limit c, before run_scan's first statement
ScanStart(ps, c) ==
    /\ ip = "unset"
    /\ ports = ps
    /\ concurrency = c
    /\ runner = "start"
    /\ error = "none"
    /\ sem_value = 0
    /\ waiters = <<>>
    /\ phase = [i \in 1..Len(ps) |-> "unscheduled"]
    /\ conn = [i \in 1..Len(ps) |-> "none"]
    /\ closes = [i \in 1..Len(ps) |-> 0]
    /\ connected = [i \in 1..Len(ps) |-> "none"]
    /\ readEnd = [i \in 1..Len(ps) |-> "none"]
    /\ banner = [i \in 1..Len(ps) |-> None]
    /\ result = [i \in 1..Len(ps) |-> <<>>]
    /\ attempts = [i \in 1..Len(ps) |-> 0]
    /\ returned = <<>>

Init ==
    /\ ParsingIdle /\ InferenceIdle /\ ReportsIdle
    /\ ip = "unset"
    /\ ports \in PortLists
    /\ concurrency \in 1..MaxConcurrency
    /\ runner = "start"
    /\ error = "none"
    /\ sem_value = 0
    /\ waiters = <<>>
    /\ phase = [i \in Tasks |-> "unscheduled"]
    /\ conn = [i \in Tasks |-> "none"]
    /\ closes = [i \in Tasks |-> 0]
    /\ connected = [i \in Tasks |-> "none"]
    /\ readEnd = [i \in Tasks |-> "none"]
    /\ banner = [i \in Tasks |-> None]
    /\ result = [i \in Tasks |-> <<>>]
    /\ attempts = [i \in Tasks |-> 0]
    /\ returned = <<>>

\* ------------------------------------------------------------- semaphore
\* Semaphore.locked()
locked == sem_value = 0 \/ waiters # <<>> \/ \E j \in Tasks : phase[j] = "woken"

\* Task i leaves `async with semaphore` and ends in phase p: Semaphore.release()
\* gives the slot to the oldest waiter, or back to the counter.
Released(i, p) ==
    IF waiters # <<>>
    THEN /\ sem_value' = sem_value
         /\ waiters' = Tail(waiters)
         /\ phase' = [phase EXCEPT ![i] = p, ![Head(waiters)] = "woken"]
    ELSE /\ sem_value' = sem_value + 1
         /\ waiters' = waiters
         /\ phase' = [phase EXCEPT ![i] = p]

\* ---------------------------------------------------------------- run_scan
\* run_scan up to the await of gather: resolve, make the semaphore, make the tasks.
ResolveOk(target) ==
    /\ runner = "start"
    /\ resolve_target(target)
    /\ ip' = "resolved"
    /\ runner' = "gathering"
    /\ sem_value' = concurrency
    /\ phase' = [i \in Tasks |-> "new"]
    /\ UNCHANGED <<inputs, util, attempts, error, waiters, conn, closes, connected, readEnd,
                   banner, result, returned>>

\* Variant of ResolveFail: the lookup error is swallowed and the scan goes on
\* with the target string as the address.
ResolveFail_Swallowed(target) ==
    /\ runner = "start"
    /\ ~resolve_target(target)
    /\ ip' = ip
    /\ runner' = "gathering"
    /\ sem_value' = concurrency
    /\ phase' = [i \in Tasks |-> "new"]
    /\ UNCHANGED <<inputs, util, attempts, error, waiters, conn, closes, connected, readEnd,
                   banner, result, returned>>

\* resolve_target raises: run_scan raises at its first line.
ResolveFail(target) ==
    /\ runner = "start"
    /\ ~resolve_target(target)
    /\ ip' = ip
    /\ runner' = "raised"
    /\ error' = "gaierror"
    /\ UNCHANGED <<inputs, util, attempts, sem_value, waiters, phase, conn, closes, connected,
                   readEnd, banner, result, returned>>

\* the results of the tasks that have one, in task order
RECURSIVE Collected(_)
Collected(n) == IF n = 0 THEN <<>> ELSE Collected(n - 1) \o result[n]

\* Variant of GatherReturn: the closed ports are filtered out of the list.
GatherReturn_OnlyOpen ==
    /\ runner = "gathering"
    /\ \A i \in Tasks : phase[i] = "done"
    /\ runner' = "returned"
    /\ returned' = SelectSeq(SortedByPort([i \in Tasks |-> result[i][1]]),
                             LAMBDA r : r.status = "open")
    /\ UNCHANGED <<ip, inputs, util, attempts, error, sem_value, waiters, phase, conn, closes,
                   connected, readEnd, banner, result>>

\* Variant of GatherReturn: run_scan returns as soon as one task is done
\* (asyncio.wait with FIRST_COMPLETED instead of gather).
GatherReturn_FirstCompleted ==
    /\ runner = "gathering"
    /\ \E i \in Tasks : phase[i] = "done"
    /\ runner' = "returned"
    /\ returned' = SortedByPort(Collected(Len(ports)))
    /\ UNCHANGED <<ip, inputs, util, attempts, error, sem_value, waiters, phase, conn, closes,
                   connected, readEnd, banner, result>>

\* gather has every result: run_scan returns them sorted by port.
GatherReturn ==
    /\ runner = "gathering"
    /\ \A i \in Tasks : phase[i] = "done"
    /\ runner' = "returned"
    /\ returned' = SortedByPort([i \in Tasks |-> result[i][1]])
    /\ UNCHANGED <<ip, inputs, util, attempts, error, sem_value, waiters, phase, conn, closes,
                   connected, readEnd, banner, result>>

\* gather without return_exceptions: a task's exception is raised by run_scan.
GatherRaise ==
    /\ runner = "gathering"
    /\ \E i \in Tasks : phase[i] = "raised"
    /\ runner' = "raised"
    /\ error' = "reset"
    /\ UNCHANGED <<ip, inputs, util, attempts, sem_value, waiters, phase, conn, closes, connected,
                   readEnd, banner, result, returned>>

\* --------------------------------------------------------------- scan_port
AllStarted == \A j \in Tasks : phase[j] \notin {"unscheduled", "new"}

\* Variant of StartTask: scan_port connects without `async with semaphore`.
StartTask_Unbounded(i) ==
    /\ runner = "gathering"
    /\ phase[i] = "new"
    /\ \A j \in 1..(i - 1) : phase[j] # "new"
    /\ phase' = [phase EXCEPT ![i] = "connecting"]
    /\ attempts' = [attempts EXCEPT ![i] = @ + 1]
    /\ UNCHANGED <<ip, inputs, util, runner, error, sem_value, waiters, conn, closes,
                   connected, readEnd, banner, result, returned>>

\* The event loop runs the first step of every task, in creation order, before
\* it polls for I/O: the task enters `async with semaphore` and starts to
\* connect, or queues behind the semaphore.
StartTask(i) ==
    /\ runner = "gathering"
    /\ phase[i] = "new"
    /\ \A j \in 1..(i - 1) : phase[j] # "new"
    /\ IF ~locked
       THEN /\ sem_value' = sem_value - 1
            /\ phase' = [phase EXCEPT ![i] = "connecting"]
            /\ waiters' = waiters
            /\ attempts' = [attempts EXCEPT ![i] = @ + 1]
       ELSE /\ waiters' = Append(waiters, i)
            /\ phase' = [phase EXCEPT ![i] = "waiting"]
            /\ sem_value' = sem_value
            /\ attempts' = attempts
    /\ UNCHANGED <<ip, inputs, util, runner, error, conn, closes, connected, readEnd,
                   banner, result, returned>>

\* A woken waiter resumes in acquire() and starts to connect.
Resume(i) ==
    /\ AllStarted
    /\ phase[i] = "woken"
    /\ IF sem_value > 0 /\ waiters # <<>>
       THEN /\ sem_value' = sem_value - 1
            /\ waiters' = Tail(waiters)
            /\ phase' = [phase EXCEPT ![i] = "connecting", ![Head(waiters)] = "woken"]
       ELSE /\ sem_value' = sem_value
            /\ waiters' = waiters
            /\ phase' = [phase EXCEPT ![i] = "connecting"]
    /\ attempts' = [attempts EXCEPT ![i] = @ + 1]
    /\ UNCHANGED <<ip, inputs, util, runner, error, conn, closes, connected, readEnd,
                   banner, result, returned>>

\* Variant of ConnectOk: scan_port reports the port open without calling
\* grab_banner, so nobody closes the writer.
ConnectOk_NoBanner(i) ==
    /\ AllStarted
    /\ phase[i] = "connecting"
    /\ connected' = [connected EXCEPT ![i] = "ok"]
    /\ conn' = [conn EXCEPT ![i] = "open"]
    /\ result' = [result EXCEPT ![i] =
           <<Record(ports[i], "open", None, infer_service(ports[i], None))>>]
    /\ Released(i, "done")
    /\ UNCHANGED <<ip, inputs, util, attempts, runner, error, closes, readEnd, banner,
                   returned>>

\* try_connect returns (reader, writer): status open, grab_banner starts to read.
ConnectOk(i) ==
    /\ AllStarted
    /\ phase[i] = "connecting"
    /\ connected' = [connected EXCEPT ![i] = "ok"]
    /\ conn' = [conn EXCEPT ![i] = "open"]
    /\ phase' = [phase EXCEPT ![i] = "reading"]
    /\ UNCHANGED <<ip, inputs, util, attempts, runner, error, sem_value, waiters, closes, readEnd,
                   banner, result, returned>>

\* Variant of ConnectFail: a connect that timed out is reported as "filtered".
ConnectFail_Filtered(i, outcome) ==
    /\ AllStarted
    /\ phase[i] = "connecting"
    /\ outcome \in ConnectOutcomes \ {"ok"}
    /\ connected' = [connected EXCEPT ![i] = outcome]
    /\ result' = [result EXCEPT ![i] =
           <<Record(ports[i], IF outcome = "timeout" THEN "filtered" ELSE "closed",
                    None, NoService)>>]
    /\ Released(i, "done")
    /\ UNCHANGED <<ip, inputs, util, attempts, runner, error, conn, closes, readEnd, banner, returned>>

\* try_connect returns None (refused, timed out, other OSError): scan_port
\* returns the closed record and releases the semaphore.
ConnectFail(i, outcome) ==
    /\ AllStarted
    /\ phase[i] = "connecting"
    /\ outcome \in ConnectOutcomes \ {"ok"}
    /\ connected' = [connected EXCEPT ![i] = outcome]
    /\ result' = [result EXCEPT ![i] = <<Record(ports[i], "closed", None, NoService)>>]
    /\ Released(i, "done")
    /\ UNCHANGED <<ip, inputs, util, attempts, runner, error, conn, closes, readEnd, banner, returned>>

\* Variant of ReadEnds: writer.close() sits at the end of the try block, not in
\* a finally block, so a read that raises leaves the connection open.
ReadEnds_NoFinally(i, outcome, b) ==
    /\ AllStarted
    /\ phase[i] = "reading"
    /\ readEnd' = [readEnd EXCEPT ![i] = outcome]
    /\ banner' = [banner EXCEPT ![i] = b]
    /\ conn' = [conn EXCEPT ![i] = IF outcome = "reset" THEN "open" ELSE "closed"]
    /\ closes' = [closes EXCEPT ![i] = IF outcome = "reset" THEN @ ELSE @ + 1]
    /\ phase' = [phase EXCEPT ![i] = "closing"]
    /\ UNCHANGED <<ip, inputs, util, attempts, runner, error, sem_value, waiters, connected, result,
                   returned>>

\* grab_banner: the read ends, the finally block calls writer.close() and
\* awaits wait_closed().
ReadEnds(i, outcome, b) ==
    /\ AllStarted
    /\ phase[i] = "reading"
    /\ readEnd' = [readEnd EXCEPT ![i] = outcome]
    /\ banner' = [banner EXCEPT ![i] = b]
    /\ conn' = [conn EXCEPT ![i] = "closed"]
    /\ closes' = [closes EXCEPT ![i] = @ + 1]
    /\ phase' = [phase EXCEPT ![i] = "closing"]
    /\ UNCHANGED <<ip, inputs, util, attempts, runner, error, sem_value, waiters, connected, result,
                   returned>>

\* reader.read(256) returns the peer's bytes.
ReadData(i, data) ==
    /\ data \in PeerData
    /\ ReadEnds(i, "data", BannerOf("data", data))

\* reader.read(256) returns b"" (peer closed) or wait_for times out.
ReadSilent(i, outcome) ==
    /\ outcome \in {"eof", "timeout"}
    /\ ReadEnds(i, outcome, BannerOf(outcome, <<>>))

\* reader.read(256) raises ConnectionResetError, which grab_banner does not catch.
ReadError(i) == ReadEnds(i, "reset", None)

\* Variant of CloseReturn: an open port that sent no banner is reported closed.
CloseReturn_SilentIsClosed(i) ==
    /\ phase[i] = "closing"
    /\ readEnd[i] \in {"data", "eof", "timeout"}
    /\ result' = [result EXCEPT ![i] =
           <<Record(ports[i], IF banner[i] = None THEN "closed" ELSE "open",
                    banner[i], infer_service(ports[i], banner[i]))>>]
    /\ Released(i, "done")
    /\ UNCHANGED <<ip, inputs, util, attempts, runner, error, conn, closes, connected, readEnd,
                   banner, returned>>

\* wait_closed() is over and grab_banner returned a banner: scan_port fills in
\* the record, returns it and releases the semaphore.
CloseReturn(i) ==
    /\ phase[i] = "closing"
    /\ readEnd[i] \in {"data", "eof", "timeout"}
    /\ result' = [result EXCEPT ![i] =
           <<Record(ports[i], "open", banner[i], infer_service(ports[i], banner[i]))>>]
    /\ Released(i, "done")
    /\ UNCHANGED <<ip, inputs, util, attempts, runner, error, conn, closes, connected, readEnd,
                   banner, returned>>

\* Variant of CloseRaise: the semaphore is acquired and released by hand, and
\* the release is skipped when grab_banner raises.
CloseRaise_Leak(i) ==
    /\ phase[i] = "closing"
    /\ readEnd[i] \in {"reset", "cancelled"}
    /\ phase' = [phase EXCEPT ![i] = IF readEnd[i] = "reset" THEN "raised" ELSE "cancelled"]
    /\ UNCHANGED <<ip, inputs, util, attempts, runner, error, sem_value, waiters, conn,
                   closes, connected, readEnd, banner, result, returned>>

\* wait_closed() is over and grab_banner re-raises the exception of the read:
\* it leaves scan_port through `async with`, which releases the semaphore.
CloseRaise(i) ==
    /\ phase[i] = "closing"
    /\ readEnd[i] \in {"reset", "cancelled"}
    /\ Released(i, IF readEnd[i] = "reset" THEN "raised" ELSE "cancelled")
    /\ UNCHANGED <<ip, inputs, util, attempts, runner, error, conn, closes, connected, readEnd,
                   banner, result, returned>>

\* ------------------------------------------------- cancellation by the caller
\* run_scan raised: asyncio.run (run_scan_sync, main) cancels the tasks that
\* are left before it closes the loop.
Cancelling == runner = "raised" /\ error = "reset"

\* cancelled in semaphore.acquire(): a queued waiter just leaves the queue, a
\* waiter that was already given the slot (its future is done, not cancelled)
\* gives it back
CancelAcquire(i) ==
    /\ Cancelling
    /\ phase[i] \in {"waiting", "woken"}
    /\ IF phase[i] = "waiting"
       THEN /\ waiters' = SelectSeq(waiters, LAMBDA j : j # i)
            /\ phase' = [phase EXCEPT ![i] = "cancelled"]
            /\ sem_value' = sem_value
       ELSE Released(i, "cancelled")
    /\ UNCHANGED <<ip, inputs, util, attempts, runner, error, conn, closes, connected, readEnd,
                   banner, result, returned>>

\* cancelled in try_connect: CancelledError leaves scan_port through `async with`
CancelConnecting(i) ==
    /\ Cancelling
    /\ phase[i] = "connecting"
    /\ connected' = [connected EXCEPT ![i] = "cancelled"]
    /\ Released(i, "cancelled")
    /\ UNCHANGED <<ip, inputs, util, attempts, runner, error, conn, closes, readEnd, banner, result,
                   returned>>

\* cancelled in the read: grab_banner's finally block still closes the writer
CancelReading(i) ==
    /\ Cancelling
    /\ ReadEnds(i, "cancelled", None)

\* cancelled in wait_closed(): CancelledError is not an Exception, it leaves
\* grab_banner and scan_port
CancelClosing(i) ==
    /\ Cancelling
    /\ phase[i] = "closing"
    /\ readEnd' = [readEnd EXCEPT ![i] = "cancelled"]
    /\ Released(i, "cancelled")
    /\ UNCHANGED <<ip, inputs, util, attempts, runner, error, conn, closes, connected, banner, result,
                   returned>>

Next ==
    \/ \E t \in TargetKinds : ResolveOk(t)
    \/ \E t \in TargetKinds : ResolveFail(t)
    \/ GatherReturn
    \/ GatherRaise
    \/ \E i \in Tasks : StartTask(i)
    \/ \E i \in Tasks : Resume(i)
    \/ \E i \in Tasks : ConnectOk(i)
    \/ \E i \in Tasks, o \in ConnectOutcomes : ConnectFail(i, o)
    \/ \E i \in Tasks, d \in PeerData : ReadData(i, d)
    \/ \E i \in Tasks, o \in ReadOutcomes : ReadSilent(i, o)
    \/ \E i \in Tasks : ReadError(i)
    \/ \E i \in Tasks : CloseReturn(i)
    \/ \E i \in Tasks : CloseRaise(i)
    \/ \E i \in Tasks : CancelAcquire(i)
    \/ \E i \in Tasks : CancelConnecting(i)
    \/ \E i \in Tasks : CancelReading(i)
    \/ \E i \in Tasks : CancelClosing(i)

Spec == Init /\ [][Next]_vars

\* ------------------------------------------------- parsing a specification
ParseInit ==
    /\ ScanStart(<<>>, 1) /\ InferenceIdle /\ ReportsIdle
    /\ ports_arg \in PortSpecs
    /\ parsed = None
    /\ parsedGui = None

\* main: ports = parse_ports(args.ports)
CallParsePorts ==
    /\ parsed = None
    /\ parsed' = parse_ports(ports_arg)
    /\ UNCHANGED <<scan, ports_arg, parsedGui, inference, reports>>

\* gui: ports = parse_ports_input(ports_input)
CallParsePortsInput ==
    /\ parsedGui = None
    /\ parsedGui' = parse_ports_input(ports_arg)
    /\ UNCHANGED <<scan, ports_arg, parsed, inference, reports>>

ParseNext == CallParsePorts \/ CallParsePortsInput

ParseSpec == ParseInit /\ [][ParseNext]_vars

\* ------------------------------------------------- infer_service, called alone
\* the ports infer_service is called with: three of the table, two outside it
InferPorts == {22, 443, 8080, 9999, 31337}

\* the banners infer_service is called with
BannerOpenSsh == <<83, 83, 72, 45, 50, 46, 48, 45, 79, 112, 101, 110, 83, 83, 72, 95, 56, 46, 48>>    \* "SSH-2.0-OpenSSH_8.0"
BannerAnything == <<97, 110, 121, 116, 104, 105, 110, 103>>    \* "anything"
BannerApache == <<65, 112, 97, 99, 104, 101, 32, 104, 116, 116, 112, 100>>    \* "Apache httpd"
BannerNginxSsh == <<110, 103, 105, 110, 120, 32, 115, 115, 104>>    \* "nginx ssh"
BannerEsmtpMysql == <<50, 50, 48, 32, 69, 83, 77, 84, 80, 32, 109, 121, 115, 113, 108>>    \* "220 ESMTP mysql"
BannerMariaDb == <<53, 46, 53, 45, 77, 97, 114, 105, 97, 68, 66>>    \* "5.5-MariaDB"
BannerMstsc == <<109, 115, 116, 115, 99>>    \* "mstsc"
BannerHttpSmtp == <<72, 84, 84, 80, 47, 49, 46, 49, 32, 115, 109, 116, 112>>    \* "HTTP/1.1 smtp"
BannerMysqlRdp == <<77, 121, 83, 81, 76, 32, 114, 100, 112>>    \* "MySQL rdp"
BannerRdp == <<82, 68, 80>>    \* "RDP"
BannerSpacedSsh == <<115, 32, 115, 104>>    \* "s sh"
BannerBlank == <<32>>    \* " "
InferBanners == {None, <<>>, BannerOpenSsh, BannerAnything, BannerApache, BannerNginxSsh, BannerEsmtpMysql, BannerMariaDb, BannerMstsc,
                  BannerHttpSmtp, BannerMysqlRdp, BannerRdp, BannerSpacedSsh, BannerBlank}

InferInit ==
    /\ ScanStart(<<>>, 1) /\ ParsingIdle /\ ReportsIdle
    /\ infer_in \in InferPorts \X InferBanners
    /\ infer_out = "unset"

\* service = infer_service(port, banner)
CallInferService ==
    /\ infer_out = "unset"
    /\ infer_out' = infer_service(infer_in[1], infer_in[2])
    /\ UNCHANGED <<scan, parsing, infer_in, reports>>

InferNext == CallInferService

InferSpec == InferInit /\ [][InferNext]_vars

\* --------------------------------------------------------------- reports
\* the longest list of records given to save_json and save_csv
MaxRecords == 2

\* the names the records and the service table use
Labels ==
    {"port", "status", "banner", "service", "open", "closed"} \cup
    {SERVICE_MAP[q] : q \in DOMAIN SERVICE_MAP}

\* the text of a name
Chars(label) ==
    CASE label = "port" -> <<112, 111, 114, 116>>
      [] label = "status" -> <<115, 116, 97, 116, 117, 115>>
      [] label = "banner" -> <<98, 97, 110, 110, 101, 114>>
      [] label = "service" -> <<115, 101, 114, 118, 105, 99, 101>>
      [] label = "open" -> <<111, 112, 101, 110>>
      [] label = "closed" -> <<99, 108, 111, 115, 101, 100>>
      [] label = "ftp" -> <<102, 116, 112>>
      [] label = "ssh" -> <<115, 115, 104>>
      [] label = "telnet" -> <<116, 101, 108, 110, 101, 116>>
      [] label = "smtp" -> <<115, 109, 116, 112>>
      [] label = "dns" -> <<100, 110, 115>>
      [] label = "http" -> <<104, 116, 116, 112>>
      [] label = "pop3" -> <<112, 111, 112, 51>>
      [] label = "imap" -> <<105, 109, 97, 112>>
      [] label = "https" -> <<104, 116, 116, 112, 115>>
      [] label = "mysql" -> <<109, 121, 115, 113, 108>>
      [] label = "rdp" -> <<114, 100, 112>>
      [] label = "vnc" -> <<118, 110, 99>>
      [] label = "http-alt" -> <<104, 116, 116, 112, 45, 97, 108, 116>>

\* the name that text spells, "?" for any other text
Label(text) ==
    IF \E l \in Labels : Chars(l) = text THEN CHOOSE l \in Labels : Chars(l) = text ELSE "?"

\* str(n) for n >= 0
RECURSIVE Digits(_)
Digits(n) == IF n < 10 THEN <<48 + n>> ELSE Digits(n \div 10) \o <<48 + (n % 10)>>

\* the concatenation of a list of texts, sep between neighbours
RECURSIVE JoinWith(_, _)
JoinWith(texts, sep) ==
    IF texts = <<>> THEN <<>>
    ELSE IF Len(texts) = 1 THEN texts[1]
    ELSE texts[1] \o sep \o JoinWith(Tail(texts), sep)

\* str.replace(a, b) for single characters
Replace(text, a, b) == [k \in 1..Len(text) |-> IF text[k] = a THEN b ELSE text[k]]

\* one lowercase hexadecimal digit
Hex(d) == IF d < 10 THEN 48 + d ELSE 87 + d

\* json's escape of one character of a string, ensure_ascii=False
EscapeChar(c) ==
    CASE c = 34 -> <<92, 34>>                         \* "  ->  \"
      [] c = 92 -> <<92, 92>>                         \* \  ->  \\
      [] c = 10 -> <<92, 110>>                        \* \n
      [] c = 13 -> <<92, 114>>                        \* \r
      [] c = 9 -> <<92, 116>>                         \* \t
      [] c = 8 -> <<92, 98>>                          \* \b
      [] c = 12 -> <<92, 102>>                        \* \f
      [] c < 32 /\ c \notin {8, 9, 10, 12, 13} ->
             <<92, 117, 48, 48, Hex(c \div 16), Hex(c % 16)>>    \* \u00xx
      [] OTHER -> <<c>>

\* json's encoding of a str
JsonString(text) ==
    <<34>> \o JoinWith([k \in 1..Len(text) |-> EscapeChar(text[k])], <<>>) \o <<34>>

\* null
JsonNull == <<110, 117, 108, 108>>

\* "key": value
JsonMember(key, value) == JsonString(Chars(key)) \o <<58, 32>> \o value

\* the order of the keys in the dict scan_port creates
ScanOrder == <<"port", "status", "banner", "service">>

\* the order of the keys in the dicts of test_save_and_read
TestOrder == <<"port", "status", "service", "banner">>

\* a result dict: the record's four values and the order its keys were
\* inserted in
Dict(r, order) ==
    [port |-> r.port, status |-> r.status, banner |-> r.banner, service |-> r.service,
     order |-> order]

\* json's encoding of the value a dict holds under key
JsonValue(d, key) ==
    CASE key = "port" -> Digits(d.port)
      [] key = "status" -> JsonString(Chars(d.status))
      [] key = "banner" -> IF d.banner = None THEN JsonNull ELSE JsonString(d.banner)
      [] key = "service" ->
             IF d.service = NoService THEN JsonNull ELSE JsonString(Chars(d.service))

\* json's encoding of one dict at indent level 1 of indent=2: the members in
\* the dict's own key order
JsonObject(d) ==
    <<123, 10, 32, 32, 32, 32>> \o
    JoinWith([k \in 1..Len(d.order) |-> JsonMember(d.order[k], JsonValue(d, d.order[k]))],
             <<44, 10, 32, 32, 32, 32>>) \o
    <<10, 32, 32, 125>>

\* Variant of save_json: an absent banner or service is written as the empty
\* string.
save_json_NoneAsEmpty(rs) ==
    IF rs = <<>> THEN <<91, 93>>
    ELSE <<91, 10, 32, 32>> \o
         JoinWith([k \in 1..Len(rs) |->
                      <<123, 10, 32, 32, 32, 32>> \o
                      JoinWith([j \in 1..Len(rs[k].order) |->
                                   JsonMember(rs[k].order[j],
                                              IF JsonValue(rs[k], rs[k].order[j]) = JsonNull
                                              THEN JsonString(<<>>)
                                              ELSE JsonValue(rs[k], rs[k].order[j]))],
                               <<44, 10, 32, 32, 32, 32>>) \o
                      <<10, 32, 32, 125>>],
                  <<44, 10, 32, 32>>) \o
         <<10, 93>>

\* utils.save_json: the text json.dump(results, f, indent=2, ensure_ascii=False)
\* writes
save_json(rs) ==
    IF rs = <<>> THEN <<91, 93>>
    ELSE <<91, 10, 32, 32>> \o
         JoinWith([k \in 1..Len(rs) |-> JsonObject(rs[k])], <<44, 10, 32, 32>>) \o
         <<10, 93>>

\* the value of one hexadecimal digit, -1 for any other character
HexValue(c) ==
    IF c \in 48..57 THEN c - 48
    ELSE IF c \in 97..102 THEN c - 87
    ELSE IF c \in 65..70 THEN c - 55
    ELSE -1

\* a \uXXXX escape with four hexadecimal digits starts at position k
IsUnicodeEscape(text, k) ==
    /\ k + 5 <= Len(text)
    /\ text[k] = 92 /\ text[k + 1] = 117
    /\ \A j \in 2..5 : HexValue(text[k + j]) >= 0

\* the code unit the \uXXXX escape at position k names
EscapeValue(text, k) ==
    4096 * HexValue(text[k + 2]) + 256 * HexValue(text[k + 3])
    + 16 * HexValue(text[k + 4]) + HexValue(text[k + 5])

\* json's scan of a string whose opening quote is before position k: the
\* decoded text and the position after the closing quote; an escaped high
\* surrogate and the escaped low surrogate after it are one character. ok is
\* FALSE for an unterminated string, a raw control character or an unknown
\* escape.
RECURSIVE ScanString(_, _, _)
ScanString(text, k, acc) ==
    IF k > Len(text) THEN [ok |-> FALSE, value |-> acc, next |-> k]
    ELSE IF text[k] = 34 THEN [ok |-> TRUE, value |-> acc, next |-> k + 1]
    ELSE IF text[k] < 32 THEN [ok |-> FALSE, value |-> acc, next |-> k]
    ELSE IF text[k] # 92 THEN ScanString(text, k + 1, Append(acc, text[k]))
    ELSE IF k + 1 > Len(text) THEN [ok |-> FALSE, value |-> acc, next |-> k]
    ELSE IF text[k + 1] \in {34, 92, 47}
        THEN ScanString(text, k + 2, Append(acc, text[k + 1]))
    ELSE IF text[k + 1] \in {98, 102, 110, 114, 116}
        THEN ScanString(text, k + 2,
                        Append(acc, CASE text[k + 1] = 98 -> 8
                                      [] text[k + 1] = 102 -> 12
                                      [] text[k + 1] = 110 -> 10
                                      [] text[k + 1] = 114 -> 13
                                      [] text[k + 1] = 116 -> 9))
    ELSE IF IsUnicodeEscape(text, k)
        THEN IF /\ EscapeValue(text, k) \in 55296..56319
                /\ IsUnicodeEscape(text, k + 6)
                /\ EscapeValue(text, k + 6) \in 56320..57343
             THEN ScanString(text, k + 12,
                             Append(acc, 65536 + 1024 * (EscapeValue(text, k) - 55296)
                                         + (EscapeValue(text, k + 6) - 56320)))
             ELSE ScanString(text, k + 6, Append(acc, EscapeValue(text, k)))
    ELSE [ok |-> FALSE, value |-> acc, next |-> k]

\* the end of the run of digits that starts at position k
RECURSIVE DigitsEnd(_, _)
DigitsEnd(text, k) ==
    IF k <= Len(text) /\ IsDigit(text[k]) THEN DigitsEnd(text, k + 1) ELSE k

\* the first position from k on that holds no JSON whitespace, Len(text) + 1
\* when there is none
SkipSpace(text, k) ==
    IF \E j \in k..Len(text) : text[j] \notin {32, 9, 10, 13}
    THEN CHOOSE j \in k..Len(text) :
             /\ text[j] \notin {32, 9, 10, 13}
             /\ \A h \in k..(j - 1) : text[h] \in {32, 9, 10, 13}
    ELSE Len(text) + 1

\* the end of the JSON integer whose first digit is at position k: a zero
\* stands alone, any other digit starts a run of digits
IntegerEnd(text, k) == IF text[k] = 48 THEN k + 1 ELSE DigitsEnd(text, k)

\* the number token that starts at position k with its first digit at position
\* d; kind "bad" when a fraction or an exponent follows the integer
NumberAt(text, k, d) ==
    IF IntegerEnd(text, d) <= Len(text) /\ text[IntegerEnd(text, d)] \in {46, 101, 69}
    THEN [kind |-> "bad", text |-> <<>>, next |-> k]
    ELSE [kind |-> "number", text |-> SubSeq(text, k, IntegerEnd(text, d) - 1),
          next |-> IntegerEnd(text, d)]

\* the token that starts at position k, a position that holds no whitespace,
\* and the position after it: punctuation, a string, an integer or null; kind
\* "bad" where the text is no JSON of this kind.
TokenAt(text, k) ==
    CASE text[k] \in {91, 93, 123, 125, 58, 44} ->
             [kind |-> "punct", text |-> <<text[k]>>, next |-> k + 1]
      [] text[k] = 34 ->
             LET str == ScanString(text, k + 1, <<>>)
             IN [kind |-> IF str.ok THEN "string" ELSE "bad", text |-> str.value,
                 next |-> str.next]
      [] IsDigit(text[k]) -> NumberAt(text, k, k)
      [] text[k] = 45 /\ k + 1 <= Len(text) /\ IsDigit(text[k + 1]) -> NumberAt(text, k, k + 1)
      [] k + 3 <= Len(text) /\ SubSeq(text, k, k + 3) = JsonNull ->
             [kind |-> "null", text |-> <<>>, next |-> k + 4]
      [] OTHER -> [kind |-> "bad", text |-> <<>>, next |-> k]

\* json's tokens of a document from position k on; a token of kind "bad" ends
\* the list
RECURSIVE JsonTokens(_, _)
JsonTokens(text, k) ==
    LET start == SkipSpace(text, k)
        tok == TokenAt(text, start)
    IN IF start > Len(text) THEN <<>>
       ELSE IF tok.kind = "bad" THEN <<[kind |-> "bad", text |-> <<>>]>>
       ELSE <<[kind |-> tok.kind, text |-> tok.text]>> \o JsonTokens(text, tok.next)

\* the token is the punctuation character c
IsPunct(tok, c) == tok.kind = "punct" /\ tok.text = <<c>>

\* the members of an object whose opening brace is before token k: the pairs
\* <<key, value token>> and the position after the closing brace
RECURSIVE ScanMembers(_, _, _)
ScanMembers(toks, k, acc) ==
    IF /\ k + 3 <= Len(toks)
       /\ toks[k].kind = "string"
       /\ IsPunct(toks[k + 1], 58)
       /\ toks[k + 2].kind \in {"string", "number", "null"}
    THEN IF IsPunct(toks[k + 3], 44)
             THEN ScanMembers(toks, k + 4, Append(acc, <<toks[k].text, toks[k + 2]>>))
         ELSE IF IsPunct(toks[k + 3], 125)
             THEN [ok |-> TRUE, value |-> Append(acc, <<toks[k].text, toks[k + 2]>>),
                   next |-> k + 4]
         ELSE [ok |-> FALSE, value |-> acc, next |-> k]
    ELSE [ok |-> FALSE, value |-> acc, next |-> k]

\* the value token of the last member named key
Member(members, key) ==
    members[CHOOSE k \in 1..Len(members) :
                /\ members[k][1] = Chars(key)
                /\ \A j \in (k + 1)..Len(members) : members[j][1] # Chars(key)][2]

\* the members are those of a result record: the four keys, a number for the
\* port, a string for the status, a string or null for banner and service
IsRecord(members) ==
    /\ {members[k][1] : k \in 1..Len(members)} =
           {Chars("port"), Chars("status"), Chars("banner"), Chars("service")}
    /\ Member(members, "port").kind = "number"
    /\ Member(members, "status").kind = "string"
    /\ Member(members, "banner").kind \in {"string", "null"}
    /\ Member(members, "service").kind \in {"string", "null"}

\* the keys of the members in the order of their first occurrence
KeyOrder(members) ==
    LET first == SortedList({k \in 1..Len(members) :
                                 \A j \in 1..(k - 1) : members[j][1] # members[k][1]})
    IN [n \in 1..Len(first) |-> Label(members[first[n]][1])]

\* the dict of the members
RecordOf(members) ==
    Dict(Record(PyInt(Member(members, "port").text).val,
                Label(Member(members, "status").text),
                IF Member(members, "banner").kind = "null" THEN None
                ELSE Member(members, "banner").text,
                IF Member(members, "service").kind = "null" THEN NoService
                ELSE Label(Member(members, "service").text)),
         KeyOrder(members))

\* the objects of an array from token k on, up to the closing bracket at the
\* end of the document
RECURSIVE ScanObjects(_, _, _)
ScanObjects(toks, k, acc) ==
    IF k <= Len(toks) /\ IsPunct(toks[k], 123)
    THEN LET obj == ScanMembers(toks, k + 1, <<>>)
         IN IF obj.ok /\ IsRecord(obj.value) /\ obj.next <= Len(toks)
            THEN IF IsPunct(toks[obj.next], 44)
                     THEN ScanObjects(toks, obj.next + 1, Append(acc, RecordOf(obj.value)))
                 ELSE IF IsPunct(toks[obj.next], 93) /\ obj.next = Len(toks)
                     THEN [state |-> "loaded", value |-> Append(acc, RecordOf(obj.value))]
                 ELSE [state |-> "error", value |-> <<>>]
            ELSE [state |-> "error", value |-> <<>>]
    ELSE [state |-> "error", value |-> <<>>]

\* json.loads of a document that holds a list of result dicts; state is
\* "error" for any other text: the text json rejects, and the documents json
\* reads as another value (a number with a fraction, true, a nested list)
json_loads(text) ==
    LET toks == JsonTokens(text, 1)
    IN IF Len(toks) = 2 /\ IsPunct(toks[1], 91) /\ IsPunct(toks[2], 93)
           THEN [state |-> "loaded", value |-> <<>>]
       ELSE IF Len(toks) > 2 /\ IsPunct(toks[1], 91)
           THEN ScanObjects(toks, 2, <<>>)
       ELSE [state |-> "error", value |-> <<>>]

\* nothing read back yet
NotLoaded == [state |-> "unset", value |-> <<>>]

\* csv.writer's field, QUOTE_MINIMAL: quoted when it holds the delimiter, the
\* quote character or a character of the line terminator; quotes are doubled
CsvField(text) ==
    IF \E k \in 1..Len(text) : text[k] \in {44, 34, 13, 10}
    THEN <<34>> \o
         JoinWith([k \in 1..Len(text) |-> IF text[k] = 34 THEN <<34, 34>> ELSE <<text[k]>>],
                  <<>>) \o
         <<34>>
    ELSE text

\* csv.writer's row: the fields, commas between them, "\r\n" at the end
CsvRow(fields) ==
    JoinWith([k \in 1..Len(fields) |-> CsvField(fields[k])], <<44>>) \o <<13, 10>>

\* the fieldnames of save_csv
Fieldnames == <<"port", "status", "service", "banner">>

\* Variant of save_csv: the banner is written as it is.
save_csv_Unsanitized(rs) ==
    CsvRow([k \in 1..Len(Fieldnames) |-> Chars(Fieldnames[k])]) \o
    JoinWith([k \in 1..Len(rs) |->
                 CsvRow(<< Digits(rs[k].port),
                           Chars(rs[k].status),
                           IF rs[k].service = NoService THEN <<>> ELSE Chars(rs[k].service),
                           IF rs[k].banner = None THEN <<>> ELSE rs[k].banner >>)],
             <<>>)

\* utils.save_csv: the text written, the header and one row per record
save_csv(rs) ==
    CsvRow([k \in 1..Len(Fieldnames) |-> Chars(Fieldnames[k])]) \o
    JoinWith([k \in 1..Len(rs) |->
                 CsvRow(<< Digits(rs[k].port),
                           Chars(rs[k].status),
                           IF rs[k].service = NoService THEN <<>> ELSE Chars(rs[k].service),
                           Replace(Replace(IF rs[k].banner = None THEN <<>> ELSE rs[k].banner,
                                           10, 32), 13, 32) >>)],
             <<>>)

\* the dicts given to save_json and save_csv: the two of test_save_and_read,
\* and dicts as scan_port creates them
ReportRecords == {
    Dict(Record(22, "open", <<83, 83, 72, 45, 50, 46, 48, 45, 84, 101, 115, 116>>, "ssh"),
         TestOrder),                                                    \* "SSH-2.0-Test"
    Dict(Record(80, "closed", None, NoService), TestOrder),
    Dict(Record(80, "closed", None, "http"), ScanOrder),
    Dict(Record(9999, "open", None, NoService), ScanOrder),
    Dict(Record(9999, "open", <<>>, NoService), ScanOrder),
    Dict(Record(443, "open", <<97, 10, 98, 13, 10, 99>>, "https"), ScanOrder),     \* "a\nb\r\nc"
    Dict(Record(8080, "open", <<115, 97, 121, 32, 34, 104, 105, 34, 44, 32, 92, 32, 111, 107>>,
                "http-alt"), ScanOrder),                                \* 'say "hi", \ ok'
    Dict(Record(65535, "open", <<9, 120, 1, 233, 127>>, NoService), ScanOrder),    \* "\tx\x01é\x7f"
    Dict(Record(25, "open", <<50, 50, 48, 32, 69, 83, 77, 84, 80>>, "smtp"), ScanOrder),  \* "220 ESMTP"
    Dict(Record(1, "open", <<110, 117, 108, 108>>, NoService), ScanOrder) }        \* "null"

ResultLists == UNION {[1..n -> ReportRecords] : n \in 0..MaxRecords}

ReportInit ==
    /\ ScanStart(<<>>, 1) /\ ParsingIdle /\ InferenceIdle
    /\ results \in ResultLists
    /\ jsonFile = None
    /\ loaded = NotLoaded
    /\ csvFile = None

\* save_json(results, json_file)
SaveJson ==
    /\ jsonFile = None
    /\ jsonFile' = save_json(results)
    /\ UNCHANGED <<scan, parsing, inference, results, loaded, csvFile>>

\* save_csv(results, csv_file)
SaveCsv ==
    /\ jsonFile # None
    /\ csvFile = None
    /\ csvFile' = save_csv(results)
    /\ UNCHANGED <<scan, parsing, inference, results, jsonFile, loaded>>

\* content = json.loads(json_file.read_text(encoding="utf-8"))
LoadJson ==
    /\ csvFile # None
    /\ loaded = NotLoaded
    /\ loaded' = json_loads(jsonFile)
    /\ UNCHANGED <<scan, parsing, inference, results, jsonFile, csvFile>>

ReportNext == SaveJson \/ SaveCsv \/ LoadJson

ReportSpec == ReportInit /\ [][ReportNext]_vars



\* ================================================================ claims
\* the number of entries of list s whose port is p
RECURSIVE PortCount(_, _)
PortCount(s, p) ==
    IF s = <<>> THEN 0
    ELSE (IF Head(s) = p THEN 1 ELSE 0) + PortCount(Tail(s), p)

ReturnedPorts == [k \in 1..Len(returned) |-> returned[k].port]

\* C1: at every instant the number of scan_port tasks holding an admission slot
\* (connecting, reading a banner, closing, or just handed the slot) is at most
\* the concurrency limit.
C1_ConcurrencyLimit == Cardinality(Holders) <= concurrency

\* the limit is reached and a further task is queued behind the semaphore
C1_Witness ==
    /\ Cardinality({i \in Tasks : phase[i] \in {"connecting", "reading"}}) = concurrency
    /\ waiters # <<>>

\* C2 (as claimed): the only error run_scan raises is the resolution failure;
\* no failure of a port's connect or banner read makes run_scan raise.
C2_OnlyResolutionErrorEscapes == runner = "raised" => error = "gaierror"

\* C3: the list run_scan returns has exactly one record per entry of the
\* requested port list (same ports, same multiplicities), each open or closed.
C3_OneRecordPerPort ==
    runner = "returned" =>
        /\ Len(returned) = Len(ports)
        /\ \A p \in PortUniverse : PortCount(ReturnedPorts, p) = PortCount(ports, p)
        /\ \A k \in 1..Len(returned) : returned[k].status \in {"open", "closed"}

\* a returned list that mixes an open and a closed port
C3_Witness ==
    /\ runner = "returned"
    /\ \E j, k \in 1..Len(returned) :
           returned[j].status = "open" /\ returned[k].status = "closed"

\* C4: the list run_scan returns is ascending by port number.
C4_SortedByPort ==
    runner = "returned" =>
        \A k \in 1..(Len(returned) - 1) : returned[k].port <= returned[k + 1].port

\* a scan that returned for a port list given in descending order
C4_Witness ==
    /\ runner = "returned"
    /\ Len(ports) >= 2
    /\ ports[1] > ports[2]
    /\ Len(returned) = Len(ports)

\* C5: once run_scan has returned, every port task is done (none waits for a
\* slot, connects or reads) and the list holds every task's record.
C5_ReturnsAfterAllTasks ==
    runner = "returned" =>
        /\ \A i \in Tasks : phase[i] = "done" /\ result[i] # <<>>
        /\ Len(returned) = Len(ports)
        /\ waiters = <<>>

\* a scan that returned although one of its tasks had to read a banner until
\* the read timed out
C5_Witness ==
    /\ runner = "returned"
    /\ Len(ports) >= 2
    /\ \E i \in Tasks : readEnd[i] = "timeout"

\* C6 (as claimed, as the final state of the scan): once the target is resolved
\* and nothing more can happen, run_scan has returned and every port task got a
\* slot and completed.
C6_ScanCompletes ==
    (ip = "resolved" /\ runner # "gathering" /\ \A i \in Tasks : phase[i] \in FinalPhases) =>
        (runner = "returned" /\ \A i \in Tasks : phase[i] = "done")

\* C7: a connection try_connect opened is closed exactly once, and is closed
\* by the time grab_banner is over; a failed connect has no connection.
C7_ClosedExactlyOnce ==
    \A i \in Tasks :
        /\ closes[i] <= 1
        /\ (connected[i] = "ok" /\ phase[i] \in FinalPhases) =>
               (conn[i] = "closed" /\ closes[i] = 1)
        /\ connected[i] # "ok" => (conn[i] = "none" /\ closes[i] = 0)

\* a task whose banner read raised, over, with its connection closed
C7_Witness ==
    \E i \in Tasks : phase[i] = "raised" /\ readEnd[i] = "reset" /\ conn[i] = "closed"

\* C8: while the target is unresolved no port task is scheduled, no connect is
\* attempted, no slot is taken and nothing is returned; run_scan is at its
\* start or has raised the resolution error, and raises that error only then.
C8_ResolutionFailureAborts ==
    /\ ip = "unset" =>
           /\ runner \in {"start", "raised"}
           /\ \A i \in Tasks :
                  /\ phase[i] = "unscheduled"
                  /\ connected[i] = "none"
                  /\ conn[i] = "none"
                  /\ result[i] = <<>>
           /\ sem_value = 0
           /\ waiters = <<>>
           /\ returned = <<>>
    /\ (runner = "raised" /\ error = "gaierror") => ip = "unset"
    /\ (runner = "raised" /\ ip = "unset") => error = "gaierror"

\* run_scan raised the resolution error for a non-empty port list
C8_Witness == runner = "raised" /\ error = "gaierror" /\ Len(ports) >= 1

\* C9: a refused, timed-out or otherwise failed connect gives the record
\* (port, closed, no banner, no service), whatever the cause; and no record
\* has a status other than open or closed.
C9_FailedConnectIsClosed ==
    /\ \A i \in Tasks :
           /\ connected[i] \in {"refused", "timeout", "oserror"} =>
                  result[i] = <<Record(ports[i], "closed", None, NoService)>>
           /\ result[i] # <<>> => result[i][1].status \in {"open", "closed"}
    /\ \A k \in 1..Len(returned) : returned[k].status \in {"open", "closed"}

\* two tasks for the same port, one refused and one timed out, with equal records
C9_Witness ==
    \E i, j \in Tasks :
        /\ connected[i] = "refused"
        /\ connected[j] = "timeout"
        /\ ports[i] = ports[j]
        /\ result[i] = result[j]
        /\ result[i] # <<>>

\* C10: a record has status open exactly when the port's connect succeeded; a
\* task whose connect succeeded and whose read timed out or met end of stream
\* returns an open record with no banner.
C10_OpenIffConnected ==
    \A i \in Tasks :
        /\ result[i] # <<>> => (result[i][1].status = "open" <=> connected[i] = "ok")
        /\ (connected[i] = "ok" /\ phase[i] = "done") =>
               (result[i] # <<>> /\ result[i][1].status = "open")
        /\ (phase[i] = "done" /\ readEnd[i] \in {"eof", "timeout"}) =>
               (result[i][1].status = "open" /\ result[i][1].banner = None)

\* an open record with no banner after the peer closed without sending data
C10_Witness ==
    \E i \in Tasks :
        /\ readEnd[i] = "eof"
        /\ result[i] # <<>>
        /\ result[i][1].status = "open"
        /\ result[i][1].banner = None

\* the scan is over: run_scan returned or raised and no task is left running
ScanOver ==
    /\ ip = "resolved"
    /\ runner \in {"returned", "raised"}
    /\ \A i \in Tasks : phase[i] \in FinalPhases

\* C11 (as claimed): no entry of the port list is connected to more than once,
\* and once the scan is over every entry was connected to exactly once.
C11_AttemptedExactlyOnce ==
    /\ \A i \in Tasks : attempts[i] <= 1
    /\ ScanOver => \A i \in Tasks : attempts[i] = 1

\* C15 (as claimed): the banner of a record is absent or a non-empty text.
C15_BannerAbsentOrNonEmpty ==
    \A i \in Tasks : result[i] # <<>> => result[i][1].banner # <<>>

\* C19: the connections that are open belong to tasks holding a slot, so there
\* are at most `concurrency` of them; none is open once run_scan has returned.
C19_OpenConnectionsBounded ==
    /\ Cardinality({i \in Tasks : conn[i] = "open"}) <= concurrency
    /\ \A i \in Tasks : conn[i] = "open" => phase[i] \in HoldingPhases
    /\ \A i \in Tasks : (phase[i] \in FinalPhases \/ runner = "returned") => conn[i] # "open"

\* as many connections are open as there are slots, and a task is queued
C19_Witness ==
    /\ Cardinality({i \in Tasks : conn[i] = "open"}) = concurrency
    /\ waiters # <<>>

\* C20: from the creation of the semaphore on, the free slots plus the tasks
\* holding one make up the limit; when every task is over all slots are free.
C20_SlotConservation ==
    ip = "resolved" =>
        /\ sem_value >= 0
        /\ sem_value + Cardinality(Holders) = concurrency
        /\ (\A i \in Tasks : phase[i] \in FinalPhases) => sem_value = concurrency

\* every task is over, one of them through an exception of its banner read,
\* and every slot is free again
C20_Witness ==
    /\ Len(ports) >= 2
    /\ \A i \in Tasks : phase[i] \in FinalPhases
    /\ \E i \in Tasks : phase[i] = "raised"
    /\ sem_value = concurrency

\* ------------------------------------------------------ claims on parsing
\* the ports each token of the model stands for, written out by hand
ExpectedPorts(tok) ==
    CASE tok = Tok22 -> {22}
      [] tok = Tok80 -> {80}
      [] tok = TokPadded -> {443}
      [] tok = TokSepPadded -> {22}
      [] tok = TokRange -> {1, 2, 3}
      [] tok = TokEdgeRange -> {65534, 65535}
      [] OTHER -> {}

\* malformed or out-of-range tokens
InvalidTokens ==
    {TokZero, TokTooBig, TokWord, TokEmpty, TokBlank, TokBadRange, TokSepRange}

\* the specification is empty or made of invalid tokens only
OnlyInvalid ==
    \E ts \in TokenLists : Join(ts) = ports_arg /\ \A j \in 1..Len(ts) : ts[j] \in InvalidTokens

\* C12: parse_ports returns a strictly ascending list of ports within
\* [1, 65535], and for a non-empty specification exactly the ports its valid
\* tokens stand for: a bad token removes nothing and stops nothing.
C12_ParsePortsContract ==
    parsed # None =>
        /\ \A k \in 1..Len(parsed) : 1 <= parsed[k] /\ parsed[k] <= 65535
        /\ \A k \in 1..(Len(parsed) - 1) : parsed[k] < parsed[k + 1]
        /\ \A ts \in TokenLists :
               (Join(ts) = ports_arg /\ ports_arg # <<>>) =>
                   {parsed[k] : k \in 1..Len(parsed)} =
                       UNION {ExpectedPorts(ts[j]) : j \in 1..Len(ts)}

\* a specification with a range and a port that is out of range: the range's
\* ports are returned
C12_Witness ==
    /\ parsed = <<1, 2, 3>>
    /\ \E ts \in TokenLists : Join(ts) = ports_arg /\ Len(ts) = 2 /\ ts[1] = TokTooBig

\* C13 (as claimed): an empty specification, or one of invalid tokens only,
\* makes parse_ports return the empty list.
C13_EmptyOrInvalidYieldsNothing == (parsed # None /\ OnlyInvalid) => parsed = <<>>

\* C13 (amended): a non-empty specification of invalid tokens only makes
\* parse_ports return the empty list; the empty specification, or none, makes
\* it return the default list.
C13_InvalidYieldsNothing ==
    parsed # None =>
        /\ (OnlyInvalid /\ ports_arg # <<>>) => parsed = <<>>
        /\ ports_arg \in {<<>>, None} => parsed = TOP_TCP_PORTS

\* parse_ports returned the empty list for two invalid tokens
C13_Witness ==
    /\ parsed = <<>>
    /\ \E ts \in TokenLists :
           Join(ts) = ports_arg /\ Len(ts) = 2 /\ ts[1] = TokWord /\ ts[2] = TokZero

\* C18 (as claimed): parse_ports_input returns what parse_ports returns.
C18_GuiParsesLikeScanner == (parsed # None /\ parsedGui # None) => parsed = parsedGui

\* ------------------------------------------------ claims on infer_service
\* the banner rules in their order: a label and the keywords that select it
BannerRules ==
    << [label |-> "ssh", keywords |-> {"ssh"}],
       [label |-> "http", keywords |-> {"http", "apache", "nginx"}],
       [label |-> "smtp", keywords |-> {"smtp"}],
       [label |-> "mysql", keywords |-> {"mysql", "mariadb"}],
       [label |-> "rdp", keywords |-> {"rdp", "mstsc"}] >>

\* the keyword, spelled as code points
Spelled(word) ==
    CASE word = "ssh" -> <<115, 115, 104>>
      [] word = "http" -> <<104, 116, 116, 112>>
      [] word = "apache" -> <<97, 112, 97, 99, 104, 101>>
      [] word = "nginx" -> <<110, 103, 105, 110, 120>>
      [] word = "smtp" -> <<115, 109, 116, 112>>
      [] word = "mysql" -> <<109, 121, 115, 113, 108>>
      [] word = "mariadb" -> <<109, 97, 114, 105, 97, 100, 98>>
      [] word = "rdp" -> <<114, 100, 112>>
      [] word = "mstsc" -> <<109, 115, 116, 115, 99>>

\* a letter matches whatever its case
SameLetter(a, b) ==
    \/ a = b
    \/ a \in 65..90 /\ b = a + 32
    \/ b \in 65..90 /\ a = b + 32

\* the word occurs in the text, case-insensitively
Mentions(text, word) ==
    \E k \in 0..(Len(text) - Len(word)) :
        \A j \in 1..Len(word) : SameLetter(text[k + j], word[j])

\* rule k matches the banner
RuleMatches(k, text) == \E w \in BannerRules[k].keywords : Mentions(text, Spelled(w))

\* the reference: the table's label for a port of the table; otherwise, for a
\* present banner, the label of the first matching rule; otherwise absent
ReferenceService(port, text) ==
    IF port \in {21, 22, 23, 25, 53, 80, 110, 143, 443, 3306, 3389, 5900, 8080}
    THEN SERVICE_MAP[port]
    ELSE IF text = None \/ \A k \in 1..Len(BannerRules) : ~RuleMatches(k, text)
    THEN NoService
    ELSE BannerRules[CHOOSE k \in 1..Len(BannerRules) :
                         RuleMatches(k, text) /\ \A j \in 1..(k - 1) : ~RuleMatches(j, text)].label

\* C14: infer_service(port, banner) is the reference's label: the port table's
\* label whatever the banner, else the first matching banner rule, else absent.
C14_InferServiceIsReference ==
    infer_out # "unset" => infer_out = ReferenceService(infer_in[1], infer_in[2])

\* port 443 with a banner that names ssh is https
C14_Witness == infer_in = <<443, BannerOpenSsh>> /\ infer_out = "https"

\* --------------------------------------------------- claims on the reports
\* the number of quote characters of text at positions a..b
Quotes(text, a, b) == Cardinality({j \in a..b : text[j] = 34})

\* the CSV field that starts at position k and the position after it: a
\* quoted field ends at the quote that closes it and holds each doubled quote
\* once, any other field ends before the next comma or line break
CsvFieldAt(text, k) ==
    IF k <= Len(text) /\ text[k] = 34
    THEN LET Closes(j) == /\ text[j] = 34
                          /\ Quotes(text, k + 1, j - 1) % 2 = 0
                          /\ (j = Len(text) \/ text[j + 1] # 34)
             close == IF \E j \in (k + 1)..Len(text) : Closes(j)
                      THEN CHOOSE j \in (k + 1)..Len(text) :
                               Closes(j) /\ \A h \in (k + 1)..(j - 1) : ~Closes(h)
                      ELSE Len(text) + 1
             kept == {j \in (k + 1)..(close - 1) :
                          text[j] # 34 \/ Quotes(text, k + 1, j) % 2 = 0}
             Nth(n) == CHOOSE j \in kept : Cardinality({h \in kept : h <= j}) = n
         IN [value |-> [n \in 1..Cardinality(kept) |-> text[Nth(n)]], next |-> close + 1]
    ELSE LET stop == IF \E j \in k..Len(text) : text[j] \in {44, 13, 10}
                     THEN CHOOSE j \in k..Len(text) :
                              /\ text[j] \in {44, 13, 10}
                              /\ \A h \in k..(j - 1) : text[h] \notin {44, 13, 10}
                     ELSE Len(text) + 1
         IN [value |-> SubSeq(text, k, stop - 1), next |-> stop]

\* the rows a CSV reader finds in text from position k on, after the rows
\* read so far and the fields of the row being read
RECURSIVE CsvRows(_, _, _, _)
CsvRows(text, k, row, rows) ==
    IF k > Len(text) THEN (IF row = <<>> THEN rows ELSE Append(rows, row))
    ELSE LET f == CsvFieldAt(text, k)
         IN IF f.next > Len(text) THEN Append(rows, Append(row, f.value))
            ELSE IF text[f.next] = 44
                THEN CsvRows(text, f.next + 1, Append(row, f.value), rows)
            ELSE IF text[f.next] = 13 /\ f.next < Len(text) /\ text[f.next + 1] = 10
                THEN CsvRows(text, f.next + 2, <<>>, Append(rows, Append(row, f.value)))
            ELSE CsvRows(text, f.next + 1, <<>>, Append(rows, Append(row, f.value)))

\* text with each carriage return and each line feed as a space
OneLine(text) == [j \in 1..Len(text) |-> IF text[j] \in {10, 13} THEN 32 ELSE text[j]]

\* C16: the file save_csv writes holds, after the header row, exactly one row
\* per record in the order of the list, with the four fields port, status,
\* service or empty, banner or empty, and no banner field holds a carriage
\* return or a line feed: each is a space.
C16_CsvRowPerRecord ==
    csvFile # None =>
        LET rows == CsvRows(csvFile, 1, <<>>, <<>>)
        IN /\ Len(rows) = Len(results) + 1
           /\ rows[1] = <<Chars("port"), Chars("status"), Chars("service"), Chars("banner")>>
           /\ \A k \in 1..Len(results) :
                  /\ Len(rows[k + 1]) = 4
                  /\ rows[k + 1][1] = Digits(results[k].port)
                  /\ rows[k + 1][2] = Chars(results[k].status)
                  /\ rows[k + 1][3] = (IF results[k].service = NoService THEN <<>>
                                       ELSE Chars(results[k].service))
                  /\ rows[k + 1][4] = (IF results[k].banner = None THEN <<>>
                                       ELSE OneLine(results[k].banner))
                  /\ \A j \in 1..Len(rows[k + 1][4]) : rows[k + 1][4][j] \notin {10, 13}

\* a file written for two records, the second with line breaks in its banner
C16_Witness ==
    /\ csvFile # None
    /\ Len(results) = 2
    /\ results[1].banner = None
    /\ results[2].banner # None
    /\ \E j \in 1..Len(results[2].banner) : results[2].banner[j] = 13

\* C17: reading back the file save_json wrote gives a list of as many records
\* in the same order, each with the same port, status, service and banner;
\* absent values stay absent.
C17_JsonRoundTrip ==
    loaded.state # "unset" =>
        /\ loaded.state = "loaded"
        /\ Len(loaded.value) = Len(results)
        /\ \A k \in 1..Len(results) :
               /\ loaded.value[k].port = results[k].port
               /\ loaded.value[k].status = results[k].status
               /\ loaded.value[k].service = results[k].service
               /\ loaded.value[k].banner = results[k].banner

\* two records read back, one with an absent banner and service, one with
\* quotes and a backslash in its banner
C17_Witness ==
    /\ loaded.state = "loaded"
    /\ Len(results) = 2
    /\ results[1].banner = None /\ results[1].service = NoService
    /\ results[2].banner # None
    /\ \E j \in 1..Len(results[2].banner) : results[2].banner[j] = 92

====
